---- MODULE Spec2Model ----
(***************************************************************************)
(* A model of execute-in-dirs, the bounded-concurrency multi-directory     *)
(* command executor of this repository.                                    *)
(*                                                                         *)
(* Byte strings are sequences of text atoms; "\n" and "/" are always       *)
(* atoms of their own, so that line splitting and trimming are computed.   *)
(*                                                                         *)
(* Fault model: pipe() may fail, spawn() may fail, wait() may fail, a      *)
(* pipe read may fail, and a reader thread may suffer an internal fault    *)
(* (panic) at the top of its loop.  Thread creation itself never fails.    *)
(* A run has at most MaxFaults anomalies: the faults above and children     *)
(* that end with a non-zero exit code or a signal.                          *)
(***************************************************************************)
EXTENDS Integers, Sequences, FiniteSets, TLC

\* ---- bounds ----
MaxDirs == 3
MaxConc == 2
MaxTeeDirs == 2
MaxIODirs == 2
MaxTeeFaults == 1
MaxIOTeeDirs == 1
MaxLines == 2
MaxFaults == 1
MaxResults == 3
MaxCode == 63
MaxSignal == 31
MaxLineChunks == 2
MaxPathLen == 3
MaxFairDirs == 2
MaxFairLines == 2
MaxFairFaults == 1
MaxPairDirs == 2
MaxPairFaults == 2
MaxStreamLines == 2
MaxStreamFaults == 1

\* ---- values ----
Slash == "/"
NL == "\n"
DirSet == { <<"a", "/">>, <<"b">> }
Streams == { "Output", "Error" }
ExitCodes == { 0, 1 }
Signals == { 9 }
EMFILE == 24
ENOENT == 2
ECHILD == 10
ChildChunks == { <<"A", "\n">> }
\* writes of a child whose output has distinct lines, a write of two lines
\* and a write that ends in the middle of a line
LineChunks == { <<"A", "\n">>, <<"B", "\n">>, <<"A", "\n", "B", "\n">>, <<"P">> }

Some(x) == [some |-> TRUE, v |-> x]
None == [some |-> FALSE, v |-> 0]

\* enum ProcessExitResult
IOError(e) == [tag |-> "IOError", v |-> e]
Code(c) == [tag |-> "Code", v |-> c]
Signal(s) == [tag |-> "Signal", v |-> s]
Panic == [tag |-> "Panic", v |-> 0]
ExpectPanic == [tag |-> "ExpectPanic", v |-> 0]

\* struct ProcessResult
ProcessResult(cwd, exit) == [cwd |-> cwd, exit |-> exit]

\* std::process::ExitStatus on unix: an exit code or a terminating signal
ExitStatus(code, signal) == [code |-> code, signal |-> signal]
ExitStatuses ==
    { ExitStatus(Some(c), None) : c \in ExitCodes } \cup
    { ExitStatus(None, Some(s)) : s \in Signals }
WaitOk(st) == [ok |-> TRUE, st |-> st, err |-> 0]
WaitErr(e) == [ok |-> FALSE, st |-> ExitStatus(None, None), err |-> e]

\* a conversion that reports a terminating signal as an exit code
From_SignalAsCode(r) ==
    IF ~r.ok THEN IOError(r.err)
    ELSE IF r.st.code.some THEN Code(r.st.code.v)
    ELSE Code(r.st.signal.v)

\* impl From<Result<ExitStatus, io::Error>> for ProcessExitResult
From(r) ==
    IF ~r.ok THEN IOError(r.err)
    ELSE IF r.st.code.some THEN Code(r.st.code.v)
    ELSE IF r.st.signal.some THEN Signal(r.st.signal.v)
    ELSE ExpectPanic

\* ---- text ----
DigitChar(d) == <<"0", "1", "2", "3", "4", "5", "6", "7", "8", "9">>[d + 1]

RECURSIVE DecimalNat(_)
DecimalNat(n) ==
    IF n < 10 THEN <<DigitChar(n)>>
    ELSE DecimalNat(n \div 10) \o <<DigitChar(n % 10)>>

\* Display of an integer, as format!("{:}", n) prints it
Decimal(n) == IF n < 0 THEN <<"-">> \o DecimalNat(0 - n) ELSE DecimalNat(n)

\* Display of an io::Error built from an OS error number
strerror(e) ==
    CASE e = EMFILE -> "Too many open files"
      [] e = ENOENT -> "No such file or directory"
      [] e = ECHILD -> "No child processes"
      [] OTHER -> "Unknown error"
DisplayError(e) == <<strerror(e), " (os error ">> \o Decimal(e) \o <<")">>

RECURSIVE TrailingCount(_, _)
TrailingCount(s, v) ==
    IF s = <<>> THEN 0
    ELSE IF s[Len(s)] = v THEN 1 + TrailingCount(SubSeq(s, 1, Len(s) - 1), v)
    ELSE 0

\* fn trim_end(s, v)
trim_end(s, v) == SubSeq(s, 1, Len(s) - TrailingCount(s, v))

\* the three tokens write_with_prefix writes
Tokens(prefix, message) == << trim_end(prefix, Slash), <<":", " ">>, message >>

\* a process_results without the silent arm for exit code 0
DiagMessage_NoSuccessArm(exit) ==
    CASE exit.tag = "Code" -> <<"exited ">> \o Decimal(exit.v) \o <<NL>>
      [] exit.tag = "Signal" -> <<"signaled ">> \o Decimal(exit.v) \o <<NL>>
      [] exit.tag = "IOError" -> DisplayError(exit.v) \o <<NL>>
      [] exit.tag = "Panic" -> <<"paniced">>
      [] OTHER -> <<>>

\* the message process_results formats for a result; <<>> when it writes nothing
DiagMessage(exit) ==
    CASE exit.tag = "Code" /\ exit.v = 0 -> <<>>
      [] exit.tag = "Code" /\ exit.v # 0 -> <<"exited ">> \o Decimal(exit.v) \o <<NL>>
      [] exit.tag = "Signal" -> <<"signaled ">> \o Decimal(exit.v) \o <<NL>>
      [] exit.tag = "IOError" -> DisplayError(exit.v) \o <<NL>>
      [] exit.tag = "Panic" -> <<"paniced">>
      [] OTHER -> <<>>

\* whether process_results sets e_code = 1 for a result
SetsECode(exit) ==
    \/ exit.tag = "Code" /\ exit.v # 0
    \/ exit.tag = "Signal"
    \/ exit.tag = "IOError"

\* BufRead::read_until(b'\n') on the bytes buffered in a pipe: the length of
\* the chunk up to and including the first newline, 0 if there is none
RECURSIVE FirstNL(_, _)
FirstNL(buf, k) ==
    IF k > Len(buf) THEN 0
    ELSE IF buf[k] = NL THEN k
    ELSE FirstNL(buf, k + 1)

VARIABLES
    variant,       \* which main.rs runs: "bin" (src/bin) or "io" (the IO-thread crate)
    dirs,          \* opt.directory
    concurrency,   \* opt.concurrency
    budget,        \* chunks the children may still write
    faults,        \* anomalies that may still happen
    sem,           \* the semaphore's count
    mpc,           \* main's position
    launched,      \* number of job threads spawned so far
    cmd_threads,   \* HashMap cwd -> thread, as a set of <<cwd, thread>>
    joining,       \* the entry main is joining, <<>> if none
    chan,          \* results channel (tx -> rx)
    results,       \* Vec<ProcessResult>
    ridx,          \* process_results: index of the result being handled
    mtok,          \* process_results: tokens of the current line written
    e_code,        \* process_results: e_code
    jpc,           \* execute_command: position of each job thread
    guard,         \* execute_command: _guard is alive
    child,         \* child process: none / running / exited / reaped
    result,        \* execute_command: result
    wends,         \* holders of the write-ends of each pipe
    rends,         \* owner of the read-end of each pipe
    pipe,          \* bytes buffered in each pipe
    cout,          \* bytes each child has written to each pipe so far
    rpc,           \* stream_output: position of each reader thread
    rbuf,          \* stream_output: buf
    rtok,          \* write_with_prefix in a reader: tokens written
    lock,          \* holder of the stdout / stderr lock, <<>> if free
    sink,          \* tokens written to stdout / stderr
    cwd_threads,   \* IO-thread main: Vec of job threads still to join
    iochan,        \* IO-thread main: the channel tx_io -> rx_io
    hpc,           \* handle_io: position of the IO thread
    hmsg,          \* handle_io: the message being written, <<>> if none
    htok,          \* handle_io: tokens of the message written
    fin,           \* a function under check: its argument
    fout           \* a function under check: its value, <<>> before the call

mainVars == << mpc, launched, cmd_threads, joining, results, ridx, mtok, e_code >>
jobVars == << jpc, guard, child, result, sem >>
pipeVars == << wends, rends, pipe, budget, cout >>
readerVars == << rpc, rbuf, rtok >>
sinkVars == << lock, sink >>
fnVars == << fin, fout >>
ioVars == << cwd_threads, iochan, hpc, hmsg, htok >>
vars == << dirs, concurrency, budget, faults, sem, mpc, launched, cmd_threads,
           joining, chan, results, ridx, mtok, e_code, jpc, guard, child,
           result, wends, rends, pipe, cout, rpc, rbuf, rtok, lock, sink, fin, fout,
           variant, cwd_threads, iochan, hpc, hmsg, htok >>

Jobs == 1 .. Len(dirs)
NoResult == Code(0)
MainId == <<0, "main">>
Free == <<>>
HandlerId == <<0, "io">>
Alive == mpc \notin { "exited", "crashed" }

DirLists(n) == UNION { [1 .. k -> DirSet] : k \in 1 .. n }

\* the threads, pipes and sinks when every job thread is at position pcs
Threads(v, ds, c, b, pcs) ==
    /\ variant = v
    /\ cwd_threads = <<>>
    /\ iochan = <<>>
    /\ hpc = IF v = "io" THEN "start" ELSE "none"
    /\ hmsg = <<>>
    /\ htok = 0
    /\ dirs = ds
    /\ concurrency = c
    /\ budget = b
    /\ sem = concurrency
    /\ chan = <<>>
    /\ jpc = [i \in Jobs |-> pcs]
    /\ guard = [i \in Jobs |-> FALSE]
    /\ child = [i \in Jobs |-> "none"]
    /\ result = [i \in Jobs |-> NoResult]
    /\ wends = [i \in Jobs |-> [s \in Streams |-> {}]]
    /\ rends = [i \in Jobs |-> [s \in Streams |-> "none"]]
    /\ pipe = [i \in Jobs |-> [s \in Streams |-> <<>>]]
    /\ cout = [i \in Jobs |-> [s \in Streams |-> <<>>]]
    /\ rpc = [i \in Jobs |-> [s \in Streams |-> "none"]]
    /\ rbuf = [i \in Jobs |-> [s \in Streams |-> <<>>]]
    /\ rtok = [i \in Jobs |-> [s \in Streams |-> 0]]
    /\ lock = [s \in Streams |-> Free]
    /\ sink = [s \in Streams |-> <<>>]

\* the state main starts in, for a directory list and a concurrency option
Start(v, ds, c, b, f) ==
    /\ Threads(v, ds, c, b, "idle")
    /\ faults = f
    /\ mpc = "launch"
    /\ launched = 0
    /\ cmd_threads = {}
    /\ joining = <<>>
    /\ results = <<>>
    /\ ridx = 0
    /\ mtok = 0
    /\ e_code = 0
    /\ fin = <<>>
    /\ fout = <<>>

\* children that write nothing
Init ==
    \E ds \in DirLists(MaxDirs), c \in 0 .. MaxConc : Start("bin", ds, c, 0, MaxFaults)

\* an anomaly happens: one fewer may still happen
Fault == faults > 0 /\ faults' = faults - 1

\* what child.wait() may return once the child has terminated
WaitResults == { WaitOk(st) : st \in ExitStatuses } \cup { WaitErr(ECHILD) }

\* ---- the concurrency gate (std_semaphore::Semaphore) ----
\* a gate that blocks only while count < 0
CanAcquire_OffByOne(count) == count >= 0

\* Semaphore::acquire blocks while count <= 0
CanAcquire(count) == count > 0

\* ---- sending on the results channel ----
Send(pr) == Append(chan, pr)

\* ---- fn execute_command, one instance per job thread ----

\* let _guard = semaphore.access();
Acquire(i) ==
    /\ Alive
    /\ jpc[i] = "start"
    /\ CanAcquire(sem)
    /\ sem' = sem - 1
    /\ guard' = [guard EXCEPT ![i] = TRUE]
    /\ jpc' = [jpc EXCEPT ![i] = "pipe1"]
    /\ UNCHANGED << variant, fnVars, ioVars, dirs, concurrency, faults, mainVars, chan, child, result,
                    pipeVars, readerVars, sinkVars >>

\* a match pipe() whose Err arm sends the IOError and does not return
AllocPipe_NoReturn(i, s, here, next) ==
    /\ Alive
    /\ jpc[i] = here
    /\ \/ /\ rends' = [rends EXCEPT ![i][s] = "job"]
          /\ wends' = [wends EXCEPT ![i][s] = {"tool"}]
          /\ jpc' = [jpc EXCEPT ![i] = next]
          /\ UNCHANGED << chan, faults >>
       \/ /\ Fault
          /\ chan' = Send(ProcessResult(dirs[i], IOError(EMFILE)))
          /\ jpc' = [jpc EXCEPT ![i] = next]
          /\ UNCHANGED << rends, wends >>
    /\ UNCHANGED << variant, fnVars, ioVars, dirs, concurrency, mainVars, guard, child, result, sem,
                    pipe, budget, cout, readerVars, sinkVars >>

\* the first and the second match pipe() { ... }
AllocPipe(i, s, here, next) ==
    /\ Alive
    /\ jpc[i] = here
    /\ \/ /\ rends' = [rends EXCEPT ![i][s] = "job"]
          /\ wends' = [wends EXCEPT ![i][s] = {"tool"}]
          /\ jpc' = [jpc EXCEPT ![i] = next]
          /\ UNCHANGED << chan, faults >>
       \/ /\ Fault
          /\ chan' = Send(ProcessResult(dirs[i], IOError(EMFILE)))
          /\ jpc' = [jpc EXCEPT ![i] = "ret"]
          /\ UNCHANGED << rends, wends >>
    /\ UNCHANGED << variant, fnVars, ioVars, dirs, concurrency, mainVars, guard, child, result, sem,
                    pipe, budget, cout, readerVars, sinkVars >>

Pipe1(i) == AllocPipe(i, "Output", "pipe1", "pipe2")
Pipe2(i) == AllocPipe(i, "Error", "pipe2", "spawn")

\* a spawn that keeps the Command, and with it the tool's write-ends, alive
\* until execute_command returns
Spawn_KeepsCommand(i) ==
    /\ Alive
    /\ jpc[i] = "spawn"
    /\ \/ /\ child' = [child EXCEPT ![i] = "running"]
          /\ wends' = [wends EXCEPT ![i] = [s \in Streams |-> {"tool", "child"}]]
          /\ jpc' = [jpc EXCEPT ![i] = "readers"]
          /\ UNCHANGED << chan, faults >>
       \/ /\ Fault
          /\ chan' = Send(ProcessResult(dirs[i], IOError(ENOENT)))
          /\ wends' = [wends EXCEPT ![i] = [s \in Streams |-> {}]]
          /\ jpc' = [jpc EXCEPT ![i] = "ret"]
          /\ UNCHANGED child
    /\ UNCHANGED << variant, fnVars, ioVars, dirs, concurrency, mainVars, guard, result, sem, rends,
                    pipe, budget, cout, readerVars, sinkVars >>

\* Command::new(exec)...spawn() and the match on its result; the Command that
\* owns o_writer and e_writer is a temporary dropped at the end of the statement
Spawn(i) ==
    /\ Alive
    /\ jpc[i] = "spawn"
    /\ \/ /\ child' = [child EXCEPT ![i] = "running"]
          /\ wends' = [wends EXCEPT ![i] = [s \in Streams |-> {"child"}]]
          /\ jpc' = [jpc EXCEPT ![i] = "readers"]
          /\ UNCHANGED << chan, faults >>
       \/ /\ Fault
          /\ chan' = Send(ProcessResult(dirs[i], IOError(ENOENT)))
          /\ wends' = [wends EXCEPT ![i] = [s \in Streams |-> {}]]
          /\ jpc' = [jpc EXCEPT ![i] = "ret"]
          /\ UNCHANGED child
    /\ UNCHANGED << variant, fnVars, ioVars, dirs, concurrency, mainVars, guard, result, sem, rends,
                    pipe, budget, cout, readerVars, sinkVars >>

\* the loop that spawns the two stream_output threads
StartReaders(i) ==
    /\ Alive
    /\ jpc[i] = "readers"
    /\ rpc' = [rpc EXCEPT ![i] = [s \in Streams |-> "read"]]
    /\ rends' = [rends EXCEPT ![i] = [s \in Streams |-> "reader"]]
    /\ jpc' = [jpc EXCEPT ![i] = "wait"]
    /\ UNCHANGED << variant, fnVars, ioVars, dirs, concurrency, faults, mainVars, chan, guard, child,
                    result, sem, wends, pipe, budget, cout, rbuf, rtok, sinkVars >>

\* an unwinding that forgets the guard (mem::forget): the permit is not given back
Unwind_LeaksPermit(i) ==
    /\ jpc' = [jpc EXCEPT ![i] = "panicked"]
    /\ guard' = [guard EXCEPT ![i] = FALSE]
    /\ sem' = sem
    /\ result' = [result EXCEPT ![i] = NoResult]

\* unwinding of a panicking job thread: every local is dropped, _guard included
Unwind(i) ==
    /\ jpc' = [jpc EXCEPT ![i] = "panicked"]
    /\ guard' = [guard EXCEPT ![i] = FALSE]
    /\ sem' = IF guard[i] THEN sem + 1 ELSE sem
    /\ result' = [result EXCEPT ![i] = NoResult]

\* child.wait().into(); drop(child);
Wait(i) ==
    /\ Alive
    /\ jpc[i] = "wait"
    /\ child[i] = "exited"
    /\ child' = [child EXCEPT ![i] = "reaped"]
    /\ \E r \in WaitResults :
          /\ IF r = WaitOk(ExitStatus(Some(0), None))
             THEN UNCHANGED faults
             ELSE Fault
          /\ IF From(r) = ExpectPanic
             THEN Unwind(i)
             ELSE /\ result' = [result EXCEPT ![i] = From(r)]
                  /\ jpc' = [jpc EXCEPT ![i] = "join1"]
                  /\ UNCHANGED << guard, sem >>
    /\ UNCHANGED << variant, fnVars, ioVars, dirs, concurrency, mainVars, chan, pipeVars, readerVars,
                    sinkVars >>

\* one iteration of: for thread in io_threads { thread.join().expect(..) }
JoinReader(i, s, here, next) ==
    /\ Alive
    /\ jpc[i] = here
    /\ rpc[i][s] \in { "done", "panicked" }
    /\ IF rpc[i][s] = "panicked"
       THEN Unwind(i)
       ELSE /\ jpc' = [jpc EXCEPT ![i] = next]
            /\ UNCHANGED << guard, sem, result >>
    /\ UNCHANGED << variant, fnVars, ioVars, dirs, concurrency, faults, mainVars, chan, child, pipeVars,
                    readerVars, sinkVars >>

Join1(i) == JoinReader(i, "Output", "join1", "join2")
Join2(i) == JoinReader(i, "Error", "join2", "send")

\* a send on a rendezvous channel (sync_channel(0)): it waits until main is
\* in recv
SendResult_Rendezvous(i) ==
    /\ Alive
    /\ jpc[i] = "send"
    /\ mpc = "recv"
    /\ chan' = Send(ProcessResult(dirs[i], result[i]))
    /\ result' = [result EXCEPT ![i] = NoResult]
    /\ jpc' = [jpc EXCEPT ![i] = "ret"]
    /\ UNCHANGED << variant, fnVars, ioVars, dirs, concurrency, faults, mainVars, guard, child, sem,
                    pipeVars, readerVars, sinkVars >>

\* tx.send(ProcessResult { exit: result, cwd })
SendResult(i) ==
    /\ Alive
    /\ jpc[i] = "send"
    /\ chan' = Send(ProcessResult(dirs[i], result[i]))
    /\ result' = [result EXCEPT ![i] = NoResult]
    /\ jpc' = [jpc EXCEPT ![i] = "ret"]
    /\ UNCHANGED << variant, fnVars, ioVars, dirs, concurrency, faults, mainVars, guard, child, sem,
                    pipeVars, readerVars, sinkVars >>

\* return from execute_command: locals are dropped, _guard last
Return(i) ==
    /\ Alive
    /\ jpc[i] = "ret"
    /\ jpc' = [jpc EXCEPT ![i] = "done"]
    /\ guard' = [guard EXCEPT ![i] = FALSE]
    /\ sem' = sem + 1
    /\ rends' = [rends EXCEPT ![i] =
                    [s \in Streams |-> IF rends[i][s] = "job" THEN "closed"
                                       ELSE rends[i][s]]]
    /\ wends' = [wends EXCEPT ![i] = [s \in Streams |-> wends[i][s] \ {"tool"}]]
    /\ UNCHANGED << variant, fnVars, ioVars, dirs, concurrency, faults, mainVars, chan, child, result,
                    pipe, budget, cout, readerVars, sinkVars >>

\* ---- the child process ----
\* one write(2) of the child to its stdout or stderr, of a chunk among chunks
ChildWrites(i, s, chunks) ==
    /\ Alive
    /\ child[i] = "running"
    /\ budget > 0
    /\ rends[i][s] # "closed"
    /\ \E c \in chunks :
          /\ pipe' = [pipe EXCEPT ![i][s] = @ \o c]
          /\ cout' = [cout EXCEPT ![i][s] = @ \o c]
    /\ budget' = budget - 1
    /\ UNCHANGED << variant, fnVars, ioVars, dirs, concurrency, faults, mainVars, chan, jobVars, wends, rends,
                    readerVars, sinkVars >>

ChildWrite(i, s) == ChildWrites(i, s, ChildChunks)

ChildExit(i) ==
    /\ Alive
    /\ child[i] = "running"
    /\ child' = [child EXCEPT ![i] = "exited"]
    /\ wends' = [wends EXCEPT ![i] = [s \in Streams |-> wends[i][s] \ {"child"}]]
    /\ UNCHANGED << variant, fnVars, ioVars, dirs, concurrency, faults, mainVars, chan, jpc, guard,
                    result, sem, rends, pipe, budget, cout, readerVars, sinkVars >>

\* ---- the output sink: io::stdout() / io::stderr() ----
\* a lock that never blocks
CanLock_NoExclusion(holder) == TRUE

\* Stdout::lock / Stderr::lock block while another thread holds the lock
CanLock(holder) == holder = Free

\* write_with_prefix(handle.lock(), prefix, message), one token per step: the
\* lock is taken before the first write and dropped after the third
WriteToken(w, s, k, prefix, message) ==
    /\ IF k = 0 THEN CanLock(lock[s]) ELSE lock[s] = w
    /\ sink' = [sink EXCEPT ![s] =
                   Append(@, [w |-> w, part |-> k + 1,
                              bytes |-> Tokens(prefix, message)[k + 1]])]
    /\ lock' = [lock EXCEPT ![s] = IF k + 1 = 3 THEN Free ELSE w]

\* ---- fn stream_output, one instance per reader thread ----
\* a read that strips the newline from the chunk, as BufRead::lines does
read_until_StripsNewline(buf, eof) ==
    LET k == FirstNL(buf, 1) IN
    IF k > 0 THEN [ready |-> TRUE, chunk |-> SubSeq(buf, 1, k - 1),
                   rest |-> SubSeq(buf, k + 1, Len(buf))]
    ELSE [ready |-> eof, chunk |-> buf, rest |-> <<>>]

\* a read that gives only complete lines and drops what follows the last newline
read_until_DropsPartial(buf, eof) ==
    LET k == FirstNL(buf, 1) IN
    IF k > 0 THEN [ready |-> TRUE, chunk |-> SubSeq(buf, 1, k),
                   rest |-> SubSeq(buf, k + 1, Len(buf))]
    ELSE [ready |-> eof, chunk |-> <<>>, rest |-> <<>>]

\* reader.read_until(b'\n', &mut buf): the chunk read and what stays buffered;
\* without a newline it waits for more bytes unless every write-end is closed
read_until(buf, eof) ==
    LET k == FirstNL(buf, 1) IN
    IF k > 0 THEN [ready |-> TRUE, chunk |-> SubSeq(buf, 1, k),
                   rest |-> SubSeq(buf, k + 1, Len(buf))]
    ELSE [ready |-> eof, chunk |-> buf, rest |-> <<>>]

\* Ok(n) with n > 0: a chunk is in buf, go write it
ReadData(i, s) ==
    /\ Alive
    /\ rpc[i][s] = "read"
    /\ LET r == read_until(pipe[i][s], wends[i][s] = {}) IN
          /\ r.ready
          /\ r.chunk # <<>>
          /\ rbuf' = [rbuf EXCEPT ![i][s] = r.chunk]
          /\ pipe' = [pipe EXCEPT ![i][s] = r.rest]
    /\ rpc' = [rpc EXCEPT ![i][s] = "write"]
    /\ UNCHANGED << variant, fnVars, ioVars, dirs, concurrency, faults, mainVars, chan, jobVars, wends, rends,
                    budget, cout, rtok, sinkVars >>

\* Ok(0): end of stream, return
ReadEof(i, s) ==
    /\ Alive
    /\ rpc[i][s] = "read"
    /\ LET r == read_until(pipe[i][s], wends[i][s] = {}) IN
          r.ready /\ r.chunk = <<>>
    /\ rpc' = [rpc EXCEPT ![i][s] = "done"]
    /\ rends' = [rends EXCEPT ![i][s] = "closed"]
    /\ UNCHANGED << variant, fnVars, ioVars, dirs, concurrency, faults, mainVars, chan, jobVars, wends, pipe,
                    budget, cout, rbuf, rtok, sinkVars >>

\* a failed read that is unwrapped and panics the reader thread
ReadErr_Panics(i, s) ==
    /\ Alive
    /\ rpc[i][s] = "read"
    /\ Fault
    /\ rpc' = [rpc EXCEPT ![i][s] = "panicked"]
    /\ rends' = [rends EXCEPT ![i][s] = "closed"]
    /\ UNCHANGED << variant, fnVars, ioVars, dirs, concurrency, mainVars, chan, jobVars, wends, pipe,
                    budget, cout, rbuf, rtok, sinkVars >>

\* Err(_): a failed read, return
ReadErr(i, s) ==
    /\ Alive
    /\ rpc[i][s] = "read"
    /\ Fault
    /\ rpc' = [rpc EXCEPT ![i][s] = "done"]
    /\ rends' = [rends EXCEPT ![i][s] = "closed"]
    /\ UNCHANGED << variant, fnVars, ioVars, dirs, concurrency, mainVars, chan, jobVars, wends, pipe,
                    budget, cout, rbuf, rtok, sinkVars >>

\* an internal fault of the reader thread
ReaderPanic(i, s) ==
    /\ Alive
    /\ rpc[i][s] = "read"
    /\ Fault
    /\ rpc' = [rpc EXCEPT ![i][s] = "panicked"]
    /\ rends' = [rends EXCEPT ![i][s] = "closed"]
    /\ UNCHANGED << variant, fnVars, ioVars, dirs, concurrency, mainVars, chan, jobVars, wends, pipe,
                    budget, cout, rbuf, rtok, sinkVars >>

\* match target { .. => write_with_prefix(std*.lock(), prefix, &buf) }; buf.clear()
ReaderWrite(i, s) ==
    /\ Alive
    /\ variant = "bin"
    /\ rpc[i][s] = "write"
    /\ WriteToken(<<i, s>>, s, rtok[i][s], dirs[i], rbuf[i][s])
    /\ IF rtok[i][s] + 1 = 3
       THEN /\ rtok' = [rtok EXCEPT ![i][s] = 0]
            /\ rbuf' = [rbuf EXCEPT ![i][s] = <<>>]
            /\ rpc' = [rpc EXCEPT ![i][s] = "read"]
       ELSE /\ rtok' = [rtok EXCEPT ![i][s] = @ + 1]
            /\ UNCHANGED << rbuf, rpc >>
    /\ UNCHANGED << variant, fnVars, ioVars, dirs, concurrency, faults, mainVars, chan, jobVars, pipeVars >>

\* let _ = handle.write(token) returned Err: nothing reaches the sink, the
\* error is dropped and the loop goes on with the next token
WriteTokenFails(w, s, k) ==
    /\ IF k = 0 THEN CanLock(lock[s]) ELSE lock[s] = w
    /\ lock' = [lock EXCEPT ![s] = IF k + 1 = 3 THEN Free ELSE w]
    /\ UNCHANGED sink

\* a token of write_with_prefix in stream_output fails to be written
ReaderWriteErr(i, s) ==
    /\ Alive
    /\ variant = "bin"
    /\ rpc[i][s] = "write"
    /\ Fault
    /\ WriteTokenFails(<<i, s>>, s, rtok[i][s])
    /\ IF rtok[i][s] + 1 = 3
       THEN /\ rtok' = [rtok EXCEPT ![i][s] = 0]
            /\ rbuf' = [rbuf EXCEPT ![i][s] = <<>>]
            /\ rpc' = [rpc EXCEPT ![i][s] = "read"]
       ELSE /\ rtok' = [rtok EXCEPT ![i][s] = @ + 1]
            /\ UNCHANGED << rbuf, rpc >>
    /\ UNCHANGED << variant, fnVars, ioVars, dirs, concurrency, mainVars, chan, jobVars, pipeVars >>

\* ---- fn main ----
\* HashMap::insert replaces the value stored under an equal key
Insert(map, key, value) == { e \in map : e[1] # key } \cup { <<key, value>> }

\* one iteration of: for cwd in opt.directory { cmd_threads.insert(cwd, thread::spawn(..)) }
Launch ==
    /\ variant = "bin"
    /\ mpc = "launch"
    /\ launched < Len(dirs)
    /\ launched' = launched + 1
    /\ jpc' = [jpc EXCEPT ![launched + 1] = "start"]
    /\ cmd_threads' = Insert(cmd_threads, dirs[launched + 1], launched + 1)
    /\ mpc' = IF launched + 1 = Len(dirs) THEN "join" ELSE "launch"
    /\ UNCHANGED << variant, fnVars, ioVars, dirs, concurrency, faults, joining, results, ridx, mtok, e_code,
                    chan, guard, child, result, sem, pipeVars,
                    readerVars, sinkVars >>

\* for (cwd, thread) in cmd_threads: the iterator yields the next entry, in
\* the map's arbitrary order, or ends and process_results is called
JoinNext ==
    /\ variant = "bin"
    /\ mpc = "join"
    /\ joining = <<>>
    /\ IF cmd_threads = {}
       THEN /\ mpc' = "process"
            /\ ridx' = 1
            /\ UNCHANGED << cmd_threads, joining >>
       ELSE /\ \E e \in cmd_threads :
                  /\ joining' = e
                  /\ cmd_threads' = cmd_threads \ {e}
            /\ UNCHANGED << mpc, ridx >>
    /\ UNCHANGED << variant, fnVars, ioVars, dirs, concurrency, faults, launched, results, mtok, e_code, chan,
                    jobVars, pipeVars, readerVars, sinkVars >>

\* a join whose result is not looked at: recv follows a panicked thread too
JoinOk_IgnoresPanic ==
    /\ variant = "bin"
    /\ mpc = "join"
    /\ joining # <<>>
    /\ jpc[joining[2]] \in { "done", "panicked" }
    /\ mpc' = "recv"
    /\ UNCHANGED << variant, fnVars, ioVars, dirs, concurrency, faults, launched, cmd_threads, joining, results,
                    ridx, mtok, e_code, chan, jobVars, pipeVars, readerVars,
                    sinkVars >>

\* thread.join() returned Ok(())
JoinOk ==
    /\ variant = "bin"
    /\ mpc = "join"
    /\ joining # <<>>
    /\ jpc[joining[2]] = "done"
    /\ mpc' = "recv"
    /\ UNCHANGED << variant, fnVars, ioVars, dirs, concurrency, faults, launched, cmd_threads, joining, results,
                    ridx, mtok, e_code, chan, jobVars, pipeVars, readerVars,
                    sinkVars >>

\* thread.join() returned Err: push ProcessResult { exit: Panic, cwd }
JoinErr ==
    /\ variant = "bin"
    /\ mpc = "join"
    /\ joining # <<>>
    /\ jpc[joining[2]] = "panicked"
    /\ results' = Append(results, ProcessResult(joining[1], Panic))
    /\ joining' = <<>>
    /\ UNCHANGED << variant, fnVars, ioVars, dirs, concurrency, faults, mpc, launched, cmd_threads, ridx, mtok,
                    e_code, chan, jobVars, pipeVars, readerVars, sinkVars >>

\* results.push(rx.recv().expect(..)): main holds tx, so recv blocks while
\* the channel is empty
Recv ==
    /\ variant = "bin"
    /\ mpc = "recv"
    /\ chan # <<>>
    /\ results' = Append(results, Head(chan))
    /\ chan' = Tail(chan)
    /\ joining' = <<>>
    /\ mpc' = "join"
    /\ UNCHANGED << variant, fnVars, ioVars, dirs, concurrency, faults, launched, cmd_threads, ridx, mtok,
                    e_code, jobVars, pipeVars, readerVars, sinkVars >>

\* ---- fn process_results ----
\* a Code(0) arm that resets e_code, as if the status of the last result won
Skip_ClearsECode ==
    /\ variant = "bin"
    /\ mpc = "process"
    /\ ridx <= Len(results)
    /\ DiagMessage(results[ridx].exit) = <<>>
    /\ ridx' = ridx + 1
    /\ e_code' = 0
    /\ UNCHANGED << variant, fnVars, ioVars, dirs, concurrency, faults, mpc, launched, cmd_threads, joining,
                    results, mtok, chan, jobVars, pipeVars, readerVars,
                    sinkVars >>

\* ProcessExitResult::Code(0) => {}
Skip ==
    /\ variant = "bin"
    /\ mpc = "process"
    /\ ridx <= Len(results)
    /\ DiagMessage(results[ridx].exit) = <<>>
    /\ ridx' = ridx + 1
    /\ UNCHANGED << variant, fnVars, ioVars, dirs, concurrency, faults, mpc, launched, cmd_threads, joining,
                    results, mtok, e_code, chan, jobVars, pipeVars, readerVars,
                    sinkVars >>

\* the other arms: write_with_prefix(stderr.lock(), &result.cwd, ..), then
\* e_code = 1 in the arms that set it
Diagnose ==
    /\ variant = "bin"
    /\ mpc = "process"
    /\ ridx <= Len(results)
    /\ DiagMessage(results[ridx].exit) # <<>>
    /\ WriteToken(MainId, "Error", mtok, results[ridx].cwd,
                  DiagMessage(results[ridx].exit))
    /\ IF mtok + 1 = 3
       THEN /\ mtok' = 0
            /\ ridx' = ridx + 1
            /\ e_code' = IF SetsECode(results[ridx].exit) THEN 1 ELSE e_code
       ELSE /\ mtok' = mtok + 1
            /\ UNCHANGED << ridx, e_code >>
    /\ UNCHANGED << variant, fnVars, ioVars, dirs, concurrency, faults, mpc, launched, cmd_threads, joining,
                    results, chan, jobVars, pipeVars, readerVars >>

\* process_results returns e_code and main calls exit(e_code)
Exit ==
    /\ variant = "bin"
    /\ mpc = "process"
    /\ ridx > Len(results)
    /\ mpc' = "exited"
    /\ UNCHANGED << variant, fnVars, ioVars, dirs, concurrency, faults, launched, cmd_threads, joining, results,
                    ridx, mtok, e_code, chan, jobVars, pipeVars, readerVars,
                    sinkVars >>

\* ---- the IO-thread crate: fn main, fn stream_output, fn handle_io ----
\* its job closure is the code of execute_command, modelled by the job actions

\* live clones of tx_io: main's until drop(tx_io), one per running job
\* thread, one per running reader thread
Senders ==
    \/ mpc \in { "launch", "join", "recv", "process" }
    \/ \E i \in Jobs : jpc[i] \notin { "idle", "done", "panicked" }
    \/ \E i \in Jobs, s \in Streams : rpc[i][s] \in { "read", "write" }

\* a message on the IO channel: (StdIOTarget, OsString, Vec<u8>)
IOMessage(target, prefix, message) ==
    [target |-> target, prefix |-> prefix, message |-> message]

\* the three tokens handle_io writes for a message
IOTokens(m) == << m.prefix, <<":", " ">>, m.message >>

\* one iteration of: for cwd in opt.directory { cwd_threads.push(thread::spawn(..)) }
IOLaunch ==
    /\ variant = "io"
    /\ mpc = "launch"
    /\ launched < Len(dirs)
    /\ launched' = launched + 1
    /\ jpc' = [jpc EXCEPT ![launched + 1] = "start"]
    /\ cwd_threads' = Append(cwd_threads, launched + 1)
    /\ mpc' = IF launched + 1 = Len(dirs) THEN "join" ELSE "launch"
    /\ UNCHANGED << variant, fnVars, iochan, hpc, hmsg, htok, dirs, concurrency,
                    faults, cmd_threads, joining, results, ridx, mtok, e_code,
                    chan, guard, child, result, sem, pipeVars, readerVars,
                    sinkVars >>

\* t.join().unwrap() on a job thread that returned
IOJoinOk ==
    /\ variant = "io"
    /\ mpc = "join"
    /\ cwd_threads # <<>>
    /\ jpc[Head(cwd_threads)] = "done"
    /\ cwd_threads' = Tail(cwd_threads)
    /\ mpc' = "recv"
    /\ UNCHANGED << variant, fnVars, iochan, hpc, hmsg, htok, dirs, concurrency,
                    faults, launched, cmd_threads, joining, results, ridx, mtok,
                    e_code, chan, jobVars, pipeVars, readerVars, sinkVars >>

\* t.join().unwrap() on a job thread that panicked: main panics
IOJoinErr ==
    /\ variant = "io"
    /\ mpc = "join"
    /\ cwd_threads # <<>>
    /\ jpc[Head(cwd_threads)] = "panicked"
    /\ mpc' = "crashed"
    /\ UNCHANGED << variant, fnVars, ioVars, dirs, concurrency, faults, launched,
                    cmd_threads, joining, results, ridx, mtok, e_code, chan,
                    jobVars, pipeVars, readerVars, sinkVars >>

\* results.push(rx_res.recv().unwrap())
IORecv ==
    /\ variant = "io"
    /\ mpc = "recv"
    /\ chan # <<>>
    /\ results' = Append(results, Head(chan))
    /\ chan' = Tail(chan)
    /\ mpc' = "join"
    /\ UNCHANGED << variant, fnVars, ioVars, dirs, concurrency, faults, launched,
                    cmd_threads, joining, ridx, mtok, e_code, jobVars, pipeVars,
                    readerVars, sinkVars >>

\* the join loop ends
IOJoinEnd ==
    /\ variant = "io"
    /\ mpc = "join"
    /\ cwd_threads = <<>>
    /\ mpc' = "process"
    /\ ridx' = 1
    /\ UNCHANGED << variant, fnVars, ioVars, dirs, concurrency, faults, launched,
                    cmd_threads, joining, results, mtok, e_code, chan, jobVars,
                    pipeVars, readerVars, sinkVars >>

\* for result in results: ProcessExitResult::Code(0) => {}
IOSkip ==
    /\ variant = "io"
    /\ mpc = "process"
    /\ ridx <= Len(results)
    /\ DiagMessage(results[ridx].exit) = <<>>
    /\ ridx' = ridx + 1
    /\ UNCHANGED << variant, fnVars, ioVars, dirs, concurrency, faults, mpc,
                    launched, cmd_threads, joining, results, mtok, e_code, chan,
                    jobVars, pipeVars, readerVars, sinkVars >>

\* the other arms: print_error(tx_io, result.cwd, format!(..)); e_code = 1
IOPrintError ==
    /\ variant = "io"
    /\ mpc = "process"
    /\ ridx <= Len(results)
    /\ DiagMessage(results[ridx].exit) # <<>>
    /\ iochan' = Append(iochan, IOMessage("Error", results[ridx].cwd,
                                          DiagMessage(results[ridx].exit)))
    /\ e_code' = 1
    /\ ridx' = ridx + 1
    /\ UNCHANGED << variant, fnVars, cwd_threads, hpc, hmsg, htok, dirs,
                    concurrency, faults, mpc, launched, cmd_threads, joining,
                    results, mtok, chan, jobVars, pipeVars, readerVars,
                    sinkVars >>

\* drop(tx_io)
IODrop ==
    /\ variant = "io"
    /\ mpc = "process"
    /\ ridx > Len(results)
    /\ mpc' = "iojoin"
    /\ UNCHANGED << variant, fnVars, ioVars, dirs, concurrency, faults, launched,
                    cmd_threads, joining, results, ridx, mtok, e_code, chan,
                    jobVars, pipeVars, readerVars, sinkVars >>

\* io_thread.join().unwrap(); exit(e_code)
IOExit ==
    /\ variant = "io"
    /\ mpc = "iojoin"
    /\ hpc = "done"
    /\ mpc' = "exited"
    /\ UNCHANGED << variant, fnVars, ioVars, dirs, concurrency, faults, launched,
                    cmd_threads, joining, results, ridx, mtok, e_code, chan,
                    jobVars, pipeVars, readerVars, sinkVars >>

\* handle_io: stdout.lock() and stderr.lock(), held until it returns
HandlerStart ==
    /\ Alive
    /\ hpc = "start"
    /\ \A s \in Streams : CanLock(lock[s])
    /\ lock' = [s \in Streams |-> HandlerId]
    /\ hpc' = "recv"
    /\ UNCHANGED << variant, fnVars, cwd_threads, iochan, hmsg, htok, dirs,
                    concurrency, faults, mainVars, chan, jobVars, pipeVars,
                    readerVars, sink >>

\* a receiver that takes the message sent last, not the one sent first
HandlerRecv_TakesLast ==
    /\ Alive
    /\ hpc = "recv"
    /\ iochan # <<>>
    /\ hmsg' = iochan[Len(iochan)]
    /\ iochan' = SubSeq(iochan, 1, Len(iochan) - 1)
    /\ hpc' = "write"
    /\ UNCHANGED << variant, fnVars, cwd_threads, htok, dirs, concurrency,
                    faults, mainVars, chan, jobVars, pipeVars, readerVars,
                    sinkVars >>

\* rx.recv() returned Ok(message)
HandlerRecv ==
    /\ Alive
    /\ hpc = "recv"
    /\ iochan # <<>>
    /\ hmsg' = Head(iochan)
    /\ iochan' = Tail(iochan)
    /\ hpc' = "write"
    /\ UNCHANGED << variant, fnVars, cwd_threads, htok, dirs, concurrency,
                    faults, mainVars, chan, jobVars, pipeVars, readerVars,
                    sinkVars >>

\* for token in &[prefix.as_bytes(), b": ", &message] { let _ = std*.write(token); }
HandlerWrite ==
    /\ Alive
    /\ hpc = "write"
    /\ sink' = [sink EXCEPT ![hmsg.target] =
                   Append(@, [w |-> HandlerId, part |-> htok + 1,
                              bytes |-> IOTokens(hmsg)[htok + 1]])]
    /\ IF htok + 1 = 3
       THEN /\ htok' = 0
            /\ hmsg' = <<>>
            /\ hpc' = "recv"
       ELSE /\ htok' = htok + 1
            /\ UNCHANGED << hmsg, hpc >>
    /\ UNCHANGED << variant, fnVars, cwd_threads, iochan, dirs, concurrency,
                    faults, mainVars, chan, jobVars, pipeVars, readerVars,
                    lock >>

\* rx.recv() returned Err: no live senders and nothing buffered, break
HandlerBreak ==
    /\ Alive
    /\ hpc = "recv"
    /\ iochan = <<>>
    /\ ~Senders
    /\ hpc' = "done"
    /\ lock' = [s \in Streams |-> Free]
    /\ UNCHANGED << variant, fnVars, cwd_threads, iochan, hmsg, htok, dirs,
                    concurrency, faults, mainVars, chan, jobVars, pipeVars,
                    readerVars, sink >>

\* stream_output: tx.send((target, prefix, buf)); buf.clear(), or return if
\* the receiver is gone
ReaderSend(i, s) ==
    /\ Alive
    /\ variant = "io"
    /\ rpc[i][s] = "write"
    /\ IF hpc = "done"
       THEN /\ rpc' = [rpc EXCEPT ![i][s] = "done"]
            /\ rends' = [rends EXCEPT ![i][s] = "closed"]
            /\ UNCHANGED << iochan, rbuf >>
       ELSE /\ iochan' = Append(iochan, IOMessage(s, dirs[i], rbuf[i][s]))
            /\ rbuf' = [rbuf EXCEPT ![i][s] = <<>>]
            /\ rpc' = [rpc EXCEPT ![i][s] = "read"]
            /\ UNCHANGED rends
    /\ UNCHANGED << variant, fnVars, cwd_threads, hpc, hmsg, htok, dirs,
                    concurrency, faults, mainVars, chan, jobVars, wends, pipe,
                    budget, cout, rtok, sinkVars >>

\* ---- specifications ----
MainNext ==
    \/ Launch
    \/ JoinNext
    \/ JoinOk
    \/ Recv
    \/ Skip
    \/ Diagnose
    \/ Exit

JobNext(i) ==
    \/ Acquire(i)
    \/ Pipe1(i)
    \/ Pipe2(i)
    \/ Spawn(i)
    \/ StartReaders(i)
    \/ Wait(i)
    \/ Join1(i)
    \/ Join2(i)
    \/ SendResult(i)
    \/ Return(i)
    \/ ChildExit(i)

ThreadsNext ==
    \/ \E i \in Jobs : JobNext(i)
    \/ \E i \in Jobs, s \in Streams : ReadEof(i, s)

\* the faults of a reader thread
ReaderFaultNext ==
    \/ \E i \in Jobs, s \in Streams : ReadErr(i, s)
    \/ \E i \in Jobs, s \in Streams : ReaderPanic(i, s)

Next ==
    \/ MainNext
    \/ JoinErr
    \/ ThreadsNext
    \/ ReaderFaultNext

Spec == Init /\ [][Next]_vars


\* the IO-thread crate, with children that write nothing
IOMainNext ==
    \/ IOLaunch
    \/ IOJoinOk
    \/ IORecv
    \/ IOJoinEnd
    \/ IOSkip
    \/ IOPrintError
    \/ IODrop
    \/ IOExit

HandlerNext ==
    \/ HandlerStart
    \/ HandlerRecv
    \/ HandlerWrite
    \/ HandlerBreak

InitIO ==
    \E ds \in DirLists(MaxIODirs), c \in 0 .. MaxConc : Start("io", ds, c, 0, MaxFaults)

NextIO ==
    \/ IOMainNext
    \/ IOJoinErr
    \/ HandlerNext
    \/ ThreadsNext
    \/ ReaderFaultNext

SpecIO == InitIO /\ [][NextIO]_vars

\* both crates, with children that write up to MaxLines chunks and reader
\* threads that do not fail
InitTee ==
    \/ \E ds \in DirLists(MaxTeeDirs), c \in 0 .. MaxConc :
          Start("bin", ds, c, MaxLines, MaxTeeFaults)
    \/ \E ds \in DirLists(MaxIOTeeDirs), c \in 0 .. MaxConc :
          Start("io", ds, c, MaxLines, MaxTeeFaults)

NextTee ==
    \/ MainNext
    \/ IOMainNext
    \/ HandlerNext
    \/ ThreadsNext
    \/ \E i \in Jobs, s \in Streams : ChildWrite(i, s)
    \/ \E i \in Jobs, s \in Streams : ReadData(i, s)
    \/ \E i \in Jobs, s \in Streams : ReaderWrite(i, s)
    \/ \E i \in Jobs, s \in Streams : ReaderSend(i, s)

SpecTee == InitTee /\ [][NextTee]_vars

\* ---- process_results on its own: every results vector of bounded length ----
Outcomes ==
    { Code(c) : c \in ExitCodes } \cup { Signal(g) : g \in Signals } \cup
    { IOError(e) : e \in { EMFILE, ENOENT, ECHILD } } \cup { Panic }

ResultVectors ==
    UNION { [1 .. k -> { ProcessResult(d, x) : d \in DirSet, x \in Outcomes }] :
            k \in 1 .. MaxResults }

\* main has joined every thread and calls process_results(results)
InitResults ==
    \E rs \in ResultVectors :
       /\ Threads("bin", [k \in 1 .. Len(rs) |-> rs[k].cwd], 1, 0, "done")
       /\ faults = 0
       /\ mpc = "process"
       /\ launched = Len(rs)
       /\ cmd_threads = {}
       /\ joining = <<>>
       /\ results = rs
       /\ ridx = 1
       /\ mtok = 0
       /\ e_code = 0
       /\ fin = <<>>
       /\ fout = <<>>

NextResults ==
    \/ Skip
    \/ Diagnose
    \/ Exit

SpecResults == InitResults /\ [][NextResults]_vars

\* ---- the conversion From on its own: every wait result of bounded size ----
WaitInputs ==
    { WaitOk(ExitStatus(Some(c), None)) : c \in 0 .. MaxCode } \cup
    { WaitOk(ExitStatus(None, Some(g))) : g \in 1 .. MaxSignal } \cup
    { WaitErr(e) : e \in { ECHILD } }

InitFrom ==
    \E r \in WaitInputs :
       /\ Threads("bin", <<>>, 1, 0, "idle")
       /\ faults = 0
       /\ mpc = "from"
       /\ launched = 0
       /\ cmd_threads = {}
       /\ joining = <<>>
       /\ results = <<>>
       /\ ridx = 0
       /\ mtok = 0
       /\ e_code = 0
       /\ fin = r
       /\ fout = <<>>

\* let result: ProcessExitResult = child.wait().into();
Convert ==
    /\ mpc = "from"
    /\ fout = <<>>
    /\ fout' = << From(fin) >>
    /\ UNCHANGED << variant, ioVars, dirs, concurrency, faults, mainVars, chan,
                    jobVars, pipeVars, readerVars, sinkVars, fin >>

NextFrom == Convert

SpecFrom == InitFrom /\ [][NextFrom]_vars

\* ---- one job whose child writes lines and partial lines, nothing fails ----
ChildWriteLine(i, s) == ChildWrites(i, s, LineChunks)

InitLines ==
    \E v \in { "bin", "io" }, ds \in DirLists(1) : Start(v, ds, 1, MaxLineChunks, 0)

\* (no Outcome has a diagnostic here: the arms that write one are left out)
NextLines ==
    \/ Launch \/ JoinNext \/ JoinOk \/ Recv \/ Skip \/ Exit
    \/ IOLaunch \/ IOJoinOk \/ IORecv \/ IOJoinEnd \/ IOSkip \/ IODrop \/ IOExit
    \/ HandlerNext
    \/ ThreadsNext
    \/ \E i \in Jobs, s \in Streams : ChildWriteLine(i, s)
    \/ \E i \in Jobs, s \in Streams : ReadData(i, s)
    \/ \E i \in Jobs, s \in Streams : ReaderWrite(i, s)
    \/ \E i \in Jobs, s \in Streams : ReaderSend(i, s)

SpecLines == InitLines /\ [][NextLines]_vars

\* ---- one job whose reads from the pipes and writes to the sink may fail ----
InitStream ==
    \E ds \in DirLists(1) : Start("bin", ds, 1, MaxStreamLines, MaxStreamFaults)

NextStream ==
    \/ MainNext
    \/ ThreadsNext
    \/ \E i \in Jobs, s \in Streams : ChildWrite(i, s)
    \/ \E i \in Jobs, s \in Streams : ReadData(i, s)
    \/ \E i \in Jobs, s \in Streams : ReaderWrite(i, s)
    \/ \E i \in Jobs, s \in Streams : ReadErr(i, s)
    \/ \E i \in Jobs, s \in Streams : ReaderWriteErr(i, s)

SpecStream == InitStream /\ [][NextStream]_vars

\* ---- src/bin/execute-in-dirs.rs, fewer directories and more faults ----
InitPair ==
    \E ds \in DirLists(MaxPairDirs), c \in 0 .. MaxConc :
       Start("bin", ds, c, 0, MaxPairFaults)

SpecPair == InitPair /\ [][Next]_vars

\* ---- src/bin/execute-in-dirs.rs under fair scheduling ----
\* every thread that can take a step eventually takes one, and every child
\* process eventually terminates; a fault may happen but need not

\* the steps of one job thread
JobThread(i) ==
    \/ Acquire(i)
    \/ Pipe1(i)
    \/ Pipe2(i)
    \/ Spawn(i)
    \/ StartReaders(i)
    \/ Wait(i)
    \/ Join1(i)
    \/ Join2(i)
    \/ SendResult(i)
    \/ Return(i)

\* the steps of one reader thread that reads and writes without fault
ReaderThread(i, s) ==
    \/ ReadData(i, s)
    \/ ReadEof(i, s)
    \/ ReaderWrite(i, s)

\* the steps of the main thread
MainThread == MainNext \/ JoinErr

\* weak fairness of the main thread, of each job thread and of the
\* termination of each child
FairThreads ==
    /\ WF_vars(MainThread)
    /\ \A i \in 1 .. MaxFairDirs : WF_vars(i \in Jobs /\ JobThread(i))
    /\ \A i \in 1 .. MaxFairDirs : WF_vars(i \in Jobs /\ ChildExit(i))

\* jobs that contend for the gate, with silent children
InitFair ==
    \E ds \in DirLists(MaxFairDirs), c \in 0 .. MaxConc :
       Start("bin", ds, c, 0, MaxFairFaults)

NextFair ==
    \/ MainThread
    \/ \E i \in Jobs : JobThread(i)
    \/ \E i \in Jobs : ChildExit(i)
    \/ \E i \in Jobs, s \in Streams : ReadEof(i, s)
    \/ ReaderFaultNext

Fairness ==
    /\ FairThreads
    /\ \A i \in 1 .. MaxFairDirs, s \in Streams :
          WF_vars(i \in Jobs /\ ReadEof(i, s))

SpecFair == InitFair /\ [][NextFair]_vars /\ Fairness

\* one job whose child writes, in either crate
InitFairLines ==
    \E v \in { "bin", "io" }, ds \in DirLists(1), c \in 0 .. 1 :
       Start(v, ds, c, MaxFairLines, MaxFairFaults)

NextFairLines ==
    \/ MainThread
    \/ IOMainNext
    \/ IOJoinErr
    \/ HandlerNext
    \/ \E i \in Jobs : JobThread(i)
    \/ \E i \in Jobs : ChildExit(i)
    \/ \E i \in Jobs, s \in Streams : ChildWrite(i, s)
    \/ \E i \in Jobs, s \in Streams : ReadData(i, s)
    \/ \E i \in Jobs, s \in Streams : ReadEof(i, s)
    \/ \E i \in Jobs, s \in Streams : ReaderWrite(i, s)
    \/ \E i \in Jobs, s \in Streams : ReaderSend(i, s)
    \/ ReaderFaultNext

\* in the IO-thread crate the main thread, the handle_io thread and each
\* reader's send are scheduled fairly too
FairnessLines ==
    /\ FairThreads
    /\ WF_vars(IOMainNext \/ IOJoinErr)
    /\ WF_vars(HandlerNext)
    /\ \A i \in 1 .. MaxFairDirs, s \in Streams :
          WF_vars(i \in Jobs /\ (ReaderThread(i, s) \/ ReaderSend(i, s)))

SpecFairLines == InitFairLines /\ [][NextFairLines]_vars /\ FairnessLines

(***************************************************************************)
(* Properties                                                              *)
(***************************************************************************)
\* the results that are not Success, in order
Failing(rs) == SelectSeq(rs, LAMBDA r : r.exit # Code(0))

\* the tokens process_results wrote to stderr, in order
MainTokens == SelectSeq(sink["Error"], LAMBDA t : t.w = MainId)

\* C1: the process exit status is 1 if and only if at least one Outcome
\* handed to process_results is not Success (Panic included)
C1_ExitStatusIffFailure ==
    mpc = "exited" => (e_code = 1 <=> Failing(results) # <<>>)

\* C2: process_results writes exactly one diagnostic (prefix, ": ", payload)
\* per non-Success result, tagged with that result's directory, none for a
\* Success, and with no failure writes nothing and returns 0
C2_OneDiagnosticPerFailure ==
    mpc = "exited" =>
       LET f == Failing(results)
           t == MainTokens
       IN /\ Len(t) = 3 * Len(f)
          /\ \A j \in 1 .. Len(f) :
                /\ t[3 * j - 2].part = 1
                /\ t[3 * j - 2].bytes = trim_end(f[j].cwd, Slash)
                /\ t[3 * j - 1].part = 2
                /\ t[3 * j].part = 3
          /\ (f = <<>> => sink["Error"] = <<>> /\ e_code = 0)

C2_Witness ==
    /\ mpc = "exited"
    /\ Len(results) = 3
    /\ Len(Failing(results)) = 2

\* the payload the specification gives for a non-Success Outcome
ClaimedPayload(exit) ==
    CASE exit.tag = "Code" -> <<"exited ">> \o Decimal(exit.v)
      [] exit.tag = "Signal" -> <<"signaled ">> \o Decimal(exit.v)
      [] exit.tag = "IOError" -> DisplayError(exit.v)
      [] exit.tag = "Panic" -> <<"failed">>

\* C9: every diagnostic is one newline-terminated line: the directory prefix,
\* ": " and the payload "exited n" / "signaled s" / the error message / "failed"
C9_DiagnosticLineFormat ==
    mpc = "exited" =>
       LET f == Failing(results)
           t == MainTokens
       IN /\ Len(t) = 3 * Len(f)
          /\ \A j \in 1 .. Len(f) :
                /\ t[3 * j - 2].bytes = trim_end(f[j].cwd, Slash)
                /\ t[3 * j - 1].bytes = <<":", " ">>
                /\ t[3 * j].bytes = ClaimedPayload(f[j].exit) \o <<NL>>

\* C8: the classification gives exactly one Outcome per wait result: exit
\* code 0 -> Success, n # 0 -> ExitCode(n), a signal s -> Signal(s), a failed
\* wait -> IOError
C8_ClassificationTotal ==
    fout # <<>> =>
       LET x == fout[1] IN
       /\ x.tag \in { "Code", "Signal", "IOError" }
       /\ (fin.ok /\ fin.st.code.some /\ fin.st.code.v = 0) =>
             (x = Code(0) /\ DiagMessage(x) = <<>> /\ ~SetsECode(x))
       /\ (fin.ok /\ fin.st.code.some /\ fin.st.code.v # 0) =>
             (x = Code(fin.st.code.v) /\ SetsECode(x))
       /\ (fin.ok /\ ~fin.st.code.some) =>
             (x = Signal(fin.st.signal.v) /\ SetsECode(x))
       /\ ~fin.ok => (x = IOError(fin.err) /\ SetsECode(x))

C8_Witness ==
    /\ fout # <<>>
    /\ fin.ok
    /\ ~fin.st.code.some
    /\ fout[1] = Signal(9)

\* the jobs whose child process has been spawned and not yet waited for
RunningChildren == { i \in Jobs : child[i] \in { "running", "exited" } }

\* C3: the number of children spawned and not yet waited for never exceeds
\* the configured concurrency limit
C3_ConcurrencyBound == Cardinality(RunningChildren) <= concurrency

C3_Witness ==
    /\ concurrency = 2
    /\ Cardinality(RunningChildren) = 2
    /\ \E i \in Jobs : jpc[i] = "start"

\* a job owns an open pipe end, a child not yet waited for or a live reader
HoldsResources(i) ==
    \/ \E s \in Streams : rends[i][s] \in { "job", "reader" }
    \/ \E s \in Streams : "tool" \in wends[i][s]
    \/ i \in RunningChildren
    \/ \E s \in Streams : rpc[i][s] \in { "read", "write" }

\* C4: a job holds its permit from before its first pipe allocation until
\* both readers are joined: no pipe, child or live reader without the permit
C4_PermitHeldForLifetime == \A i \in Jobs : HoldsResources(i) => guard[i]

\* main's join loop has finished
Joined == mpc \in { "process", "exited" }

\* C5: when the join loop finishes, results holds exactly one Outcome per
\* entry of the directory list, tagged with its directory, and every Outcome
\* sent has been received
C5_OneOutcomePerDirectory ==
    Joined =>
       /\ Len(results) = Len(dirs)
       /\ \A d \in DirSet :
             Len(SelectSeq(results, LAMBDA r : r.cwd = d)) = Len(SelectSeq(dirs, LAMBDA x : x = d))
       /\ chan = <<>>

\* C6: a job thread that panicked before sending is recorded as a Panic
\* Outcome tagged with its directory, and the directories of results are the
\* directories launched
C6_PanicRecorded ==
    Joined =>
       /\ \A d \in DirSet :
             Len(SelectSeq(results, LAMBDA r : r = ProcessResult(d, Panic))) =
                Cardinality({ i \in Jobs : jpc[i] = "panicked" /\ dirs[i] = d })
       /\ { results[k].cwd : k \in 1 .. Len(results) } =
             { dirs[i] : i \in Jobs }

\* C7: when a reader thread of a job panics, the tool does not crash, and
\* once the batch has ended the job's permit is released and an Outcome is
\* recorded for the job's directory
C7_ReaderFailureContained ==
    \A i \in Jobs :
       (\E s \in Streams : rpc[i][s] = "panicked") =>
          /\ mpc # "crashed"
          /\ mpc = "exited" =>
                /\ ~guard[i]
                /\ \E k \in 1 .. Len(results) : results[k].cwd = dirs[i]

\* the tokens of channel s form whole lines up to position k: part 1, 2, 3
\* in turn, the three of them by one writer
LineOrder(s, k) ==
    /\ sink[s][k].part = ((k - 1) % 3) + 1
    /\ sink[s][k].w = sink[s][k - ((k - 1) % 3)].w
    /\ sink[s][k].part = 2 => sink[s][k].bytes = <<":", " ">>

\* C10: on each channel the three tokens of a line are written by one
\* thread that holds the channel's lock from the first to the third, so no
\* token of another line falls between the prefix and the payload of a line
C10_LinesNotInterleaved ==
    \A s \in Streams :
       /\ \A k \in 1 .. Len(sink[s]) : LineOrder(s, k)
       /\ Len(sink[s]) % 3 # 0 =>
             \/ lock[s] = sink[s][Len(sink[s])].w
             \/ variant = "io" /\ lock[s] = HandlerId

\* a reader has a chunk to write while another thread is in the middle of a
\* line on the same channel, after a whole line of a different writer
C10_Witness ==
    \E s \in Streams, i \in Jobs :
       /\ variant = "bin"
       /\ rpc[i][s] = "write"
       /\ rtok[i][s] = 0
       /\ Len(sink[s]) % 3 = 1
       /\ lock[s] # Free
       /\ lock[s] # <<i, s>>
       /\ Len(sink[s]) > 3
       /\ sink[s][1].w # lock[s]

\* the lines of a byte string: each up to and including a newline, the last
\* one whatever follows the last newline
RECURSIVE SplitLines(_)
SplitLines(buf) ==
    IF buf = <<>> THEN <<>>
    ELSE LET k == FirstNL(buf, 1) IN
         IF k = 0 THEN << buf >>
         ELSE << SubSeq(buf, 1, k) >> \o SplitLines(SubSeq(buf, k + 1, Len(buf)))

RECURSIVE Flatten(_)
Flatten(chunks) ==
    IF chunks = <<>> THEN <<>> ELSE Head(chunks) \o Flatten(Tail(chunks))

\* the thread that writes the output of stream s of job i to the sink
Writer(i, s) == IF variant = "bin" THEN << i, s >> ELSE HandlerId

\* the tokens of the lines written to channel s for stream s of job i (in
\* the IO-thread crate: for a single job that has no diagnostic)
LineTokens(i, s) == SelectSeq(sink[s], LAMBDA t : t.w = Writer(i, s))

\* the payloads forwarded so far, in order
Payloads(i, s) ==
    LET t == SelectSeq(LineTokens(i, s), LAMBDA x : x.part = 3)
    IN [k \in 1 .. Len(t) |-> t[k].bytes]

\* every chunk the reader took from the pipe has been written to the sink
Delivered(i, s) ==
    /\ rpc[i][s] = "done"
    /\ Len(LineTokens(i, s)) % 3 = 0
    /\ variant = "io" =>
          /\ SelectSeq(iochan, LAMBDA m : m.target = s) = <<>>
          /\ hmsg # <<>> => hmsg.target # s

\* C11: when the child has written newline-terminated lines, the payloads
\* forwarded to the stream's channel followed by the lines still to be read
\* are the lines written, in order and byte for byte, each line after the
\* directory prefix and ": "
C11_LinesForwardedInOrder ==
    \A i \in Jobs, s \in Streams :
       (variant = "bin" /\ (cout[i][s] = <<>> \/ cout[i][s][Len(cout[i][s])] = NL)) =>
          /\ Payloads(i, s) \o SplitLines(rbuf[i][s] \o pipe[i][s]) =
                SplitLines(cout[i][s])
          /\ \A k \in 1 .. Len(LineTokens(i, s)) :
                /\ LineTokens(i, s)[k].part = ((k - 1) % 3) + 1
                /\ LineTokens(i, s)[k].part = 1 =>
                      LineTokens(i, s)[k].bytes = trim_end(dirs[i], Slash)

\* "A\nB\n" on stdout and a line on stderr, all of it forwarded
C11_Witness ==
    /\ variant = "bin"
    /\ cout[1]["Output"] = <<"A", NL, "B", NL>>
    /\ Payloads(1, "Output") = << <<"A", NL>>, <<"B", NL>> >>
    /\ Len(Payloads(1, "Error")) = 1
    /\ Delivered(1, "Output")
    /\ Delivered(1, "Error")

\* C14 as claimed: only chunks that end in a newline are written, a partial
\* trailing line is not forwarded
C14_PartialLineNotForwarded ==
    \A i \in Jobs, s \in Streams :
       \A k \in 1 .. Len(Payloads(i, s)) :
          LET c == Payloads(i, s)[k] IN c # <<>> /\ c[Len(c)] = NL

\* C14 amended: a partial trailing line is forwarded as the last chunk of
\* its stream, without a newline added: a chunk that does not end in a
\* newline is the last one, and once the reader has returned at end of
\* stream the bytes forwarded are the bytes the child wrote
C14_PartialLineForwardedLast ==
    \A i \in Jobs, s \in Streams :
       /\ \A k \in 1 .. Len(Payloads(i, s)) - 1 :
             LET c == Payloads(i, s)[k] IN c # <<>> /\ c[Len(c)] = NL
       /\ Delivered(i, s) => Flatten(Payloads(i, s)) = cout[i][s]

C14_Witness ==
    \E i \in Jobs, s \in Streams, v \in { "bin", "io" } :
       /\ variant = v
       /\ Delivered(i, s)
       /\ Len(Payloads(i, s)) = 2
       /\ Payloads(i, s)[2] = <<"P">>

\* the byte strings of at most MaxPathLen bytes over a letter and the separator
PathStrings == UNION { [1 .. k -> { "x", Slash }] : k \in 0 .. MaxPathLen }

\* t is d without its trailing separators: a prefix of d that does not end
\* in a separator and is followed in d by separators only
IsTrimmed(d, t) ==
    /\ Len(t) <= Len(d)
    /\ t = SubSeq(d, 1, Len(t))
    /\ t = <<>> \/ t[Len(t)] # Slash
    /\ \A k \in Len(t) + 1 .. Len(d) : d[k] = Slash

\* trim_end is the stripping of the trailing separators, and is idempotent
TrimEndStrips ==
    \A d \in PathStrings \cup DirSet :
       /\ IsTrimmed(d, trim_end(d, Slash))
       /\ trim_end(trim_end(d, Slash), Slash) = trim_end(d, Slash)

\* C12: the prefix of every line is the directory with all its trailing
\* separators stripped (trim_end, which is idempotent), so a directory with
\* and without trailing separators gives the same prefix
C12_PrefixNormalized ==
    /\ TrimEndStrips
    /\ \A s \in Streams : \A k \in 1 .. Len(sink[s]) :
          sink[s][k].part = 1 =>
             \E i \in Jobs : IsTrimmed(dirs[i], sink[s][k].bytes)

\* some job has ended with an Outcome that is not Success, or has panicked
SomeJobFailed ==
    \/ Failing(results \o chan) # <<>>
    \/ \E i \in Jobs : jpc[i] = "panicked"

\* C13: when a job has failed, the tool still exits only after every job
\* has run to its own Outcome, with one Outcome per directory, one
\* diagnostic per failing directory, none for the others, and exit status 1
C13_FailureDoesNotStopBatch ==
    (mpc = "exited" /\ SomeJobFailed) =>
       /\ \A i \in Jobs : jpc[i] \in { "done", "panicked" }
       /\ Len(results) = Len(dirs)
       /\ Len(MainTokens) = 3 * Len(Failing(results))
       /\ Len(Failing(results)) =
             Cardinality({ i \in Jobs : jpc[i] = "panicked" }) +
             Len(Failing(results \o chan))
       /\ e_code = 1

\* job i is waiting for its child or for its readers
AtWaitOrJoin(i) == i \in Jobs /\ jpc[i] \in { "readers", "wait", "join1", "join2" }

\* C15: the tool holds no write-end of a job's pipes when the reader joins
\* begin, and so, under fair scheduling, once the child has terminated the
\* job gets past the wait and both reader joins (unless the process ends)
C15_WriteEndsReleasedBeforeJoin ==
    /\ [](\A i \in Jobs, s \in Streams :
            jpc[i] \in { "wait", "join1", "join2" } => "tool" \notin wends[i][s])
    /\ \A i \in 1 .. MaxFairDirs :
          (AtWaitOrJoin(i) /\ child[i] \in { "exited", "reaped" })
             ~> (~AtWaitOrJoin(i) \/ ~Alive)

\* a job has joined both readers after its child wrote and terminated
C15_Witness ==
    \E i \in Jobs :
       /\ jpc[i] = "send"
       /\ child[i] = "reaped"
       /\ cout[i]["Output"] # <<>>
       /\ \A s \in Streams : rpc[i][s] = "done" /\ wends[i][s] = {}

\* job i has terminated: its thread has returned or panicked and it holds
\* no permit, pipe, child or live reader
Terminated(i) ==
    /\ jpc[i] \in { "done", "panicked" }
    /\ ~guard[i]
    /\ ~HoldsResources(i)

\* C16: process_results is entered, and a diagnostic is written, only when
\* every launched job has terminated
C16_AggregationAfterAllJobs ==
    (Joined \/ MainTokens # <<>>) => \A i \in Jobs : Terminated(i)

\* the IOError Outcomes of setup failures sent so far, received or not
SetupErrors ==
    SelectSeq(results \o chan,
              LAMBDA r : r.exit \in { IOError(EMFILE), IOError(ENOENT) })

\* the jobs that have sent their Outcome and never had a child
ReturnedWithoutChild == { i \in Jobs : jpc[i] \in { "ret", "done" } /\ child[i] = "none" }

\* C17: each setup failure sends exactly one IOError Outcome, tagged with
\* the job's directory, from a job that then only returns: it has no child
\* and no reader thread and waits for nothing, and a job that goes on to
\* spawn or wait has sent no setup failure
C17_SetupFailureStops ==
    /\ Len(SetupErrors) = Cardinality(ReturnedWithoutChild)
    /\ \A d \in DirSet :
          Len(SelectSeq(SetupErrors, LAMBDA r : r.cwd = d)) =
             Cardinality({ i \in ReturnedWithoutChild : dirs[i] = d })
    /\ \A i \in ReturnedWithoutChild, s \in Streams :
          /\ rpc[i][s] = "none"
          /\ pipe[i][s] = <<>>
          /\ "child" \notin wends[i][s]
    /\ \A i \in Jobs :
          (jpc[i] = "ret" /\ i \in ReturnedWithoutChild) => result[i] = NoResult

\* the second pipe allocation failed: one pipe was made, no child, no reader
C17_Witness ==
    \E i \in Jobs :
       /\ jpc[i] = "done"
       /\ child[i] = "none"
       /\ rends[i] = [s \in Streams |-> IF s = "Output" THEN "closed" ELSE "none"]
       /\ \E k \in 1 .. Len(results) :
             results[k] = ProcessResult(dirs[i], IOError(EMFILE))

\* the Outcomes the jobs have ended with, each with its directory: those
\* sent, received or not, and Panic for a job thread that panicked
OutcomeSet ==
    { << r.cwd, r.exit >> : r \in { (results \o chan)[k] : k \in 1 .. Len(results \o chan) } }
       \cup { << dirs[i], Panic >> : i \in { j \in Jobs : jpc[j] = "panicked" } }

\* there is one Outcome per directory
OutcomePerDirectory ==
    \A x, y \in OutcomeSet : x[1] = y[1] => x[2] = y[2]

\* the diagnostic lines process_results has written, as a set
DiagnosticLines ==
    { << MainTokens[3 * j - 2].bytes, MainTokens[3 * j - 1].bytes, MainTokens[3 * j].bytes >> :
         j \in 1 .. Len(MainTokens) \div 3 }

\* C19: the exit status and the set of diagnostic lines are a function of
\* the Outcome of each directory alone, whatever the interleaving, the
\* order of arrival on the channel and the order of the joins
C19_ResultIndependentOfOrder ==
    (mpc = "exited" /\ OutcomePerDirectory) =>
       /\ e_code = IF \E x \in OutcomeSet :
                        \/ x[2].tag \in { "Signal", "IOError" }
                        \/ x[2].tag = "Code" /\ x[2].v # 0
                   THEN 1 ELSE 0
       /\ DiagnosticLines =
             { << trim_end(x[1], Slash), <<":", " ">>, DiagMessage(x[2]) >> :
                  x \in { y \in OutcomeSet : y[2] # Code(0) } }

\* two directories that failed in different ways, collected in either order
C19_Witness ==
    /\ mpc = "exited"
    /\ OutcomePerDirectory
    /\ Len(results) = 2
    /\ results[1].cwd # results[2].cwd
    /\ results[1].exit.tag = "Code"
    /\ results[1].exit.v # 0
    /\ results[2].exit.tag = "IOError"
    /\ dirs[1] = results[2].cwd

\* job i has been launched with a gate of capacity at least 1
Launched(i) == i \in Jobs /\ concurrency >= 1 /\ jpc[i] # "idle"

\* job i has its Outcome: it has sent one, or its thread has panicked
HasOutcome(i) == i \in Jobs /\ jpc[i] \in { "ret", "done", "panicked" }

\* C18: under fair scheduling, with capacity at least 1 and children that
\* terminate, every job waiting in acquire obtains a permit, every job
\* comes to its Outcome, and the tool exits
C18_EveryJobCompletes ==
    /\ \A i \in 1 .. MaxFairDirs :
          (Launched(i) /\ jpc[i] = "start") ~> (i \in Jobs /\ jpc[i] # "start")
    /\ \A i \in 1 .. MaxFairDirs : Launched(i) ~> HasOutcome(i)
    /\ (concurrency >= 1) ~> (mpc = "exited")

\* the readers of job i are gone and part of the child's output did not
\* reach the sink whole: bytes were lost or a line lacks a token
Damaged(i) ==
    /\ \A s \in Streams : rpc[i][s] \in { "done", "panicked" }
    /\ \E s \in Streams :
          \/ Flatten(Payloads(i, s)) # cout[i][s]
          \/ Len(LineTokens(i, s)) # 3 * Len(Payloads(i, s))

\* C20: when the only anomaly of a run is a failed read or a failed write
\* of job i's output, the job does not panic and its Outcome is the
\* classification of the child's termination: no IOError and no Panic
\* Outcome comes of it (with no fault left the child's wait returns exit
\* code 0, so the Outcome is Success)
C20_StreamFailureKeepsOutcome ==
    \A i \in Jobs :
       (faults = MaxStreamFaults - 1 /\ Damaged(i)) =>
          /\ jpc[i] # "panicked"
          /\ jpc[i] = "send" => result[i] = Code(0)
          /\ \A k \in 1 .. Len(results \o chan) :
                (results \o chan)[k] = ProcessResult(dirs[i], Code(0))
          /\ mpc = "exited" => results = << ProcessResult(dirs[i], Code(0)) >> /\ e_code = 0

\* a read failed with output still in the pipe, and the tool has exited
C20_Witness ==
    \E i \in Jobs, s \in Streams :
       /\ mpc = "exited"
       /\ Damaged(i)
       /\ faults = MaxStreamFaults - 1
       /\ pipe[i][s] # <<>>
       /\ Len(Payloads(i, s)) = 1

\* the tokens write_with_prefix writes for the lines the child has written to
\* stream s of job i, when no write fails
RECURSIVE LineParts(_, _)
LineParts(prefix, lines) ==
    IF lines = <<>> THEN <<>>
    ELSE << [part |-> 1, bytes |-> Tokens(prefix, lines[1])[1]],
            [part |-> 2, bytes |-> Tokens(prefix, lines[1])[2]],
            [part |-> 3, bytes |-> Tokens(prefix, lines[1])[3]] >>
         \o LineParts(prefix, Tail(lines))

\* C21: a failed write to the sink ends the reader: nothing of the stream is
\* written after it, so what stream s of job i has in its sink is always the
\* beginning of the tokens of the lines the child wrote, with no gap
C21_WriteErrorTerminal ==
    \A i \in Jobs, s \in Streams :
       LET t == LineTokens(i, s)
           e == LineParts(dirs[i], SplitLines(cout[i][s]))
       IN /\ Len(t) <= Len(e)
          /\ \A k \in 1 .. Len(t) : t[k].part = e[k].part /\ t[k].bytes = e[k].bytes

\* C22: every accepted value of the max-concurrency option gives the gate a
\* capacity of at least 1, so once a job is launched some job obtains a
\* permit: no accepted value leaves every job blocked in acquire forever
C22_GateAdmitsAJob ==
    (launched >= 1) ~> (concurrency >= 1 /\ \E i \in Jobs : jpc[i] \notin { "idle", "start" })

\* ---- src/primes: the two prime iterators, run side by side on one max ----
MaxPrime == 12

\* naive::primes(max): Primes { max, next: 1, seen: Vec::new() }
naive_primes(max) == [max |-> max, next |-> 1, seen |-> <<>>]

\* naive::Primes::next from candidate i on: the 'outer loop over i in
\* self.next..=self.max; returns the iterator and the item
RECURSIVE NaiveScan(_, _)
NaiveScan(it, i) ==
    IF i > it.max THEN [it |-> it, item |-> None]
    ELSE IF \E k \in 1 .. Len(it.seen) : i % it.seen[k] = 0 THEN NaiveScan(it, i + 1)
    ELSE IF i # 1
         THEN [it |-> [it EXCEPT !.seen = Append(@, i), !.next = i + 1],
               item |-> Some(i)]
         ELSE NaiveScan(it, i + 1)

naive_next(it) == NaiveScan(it, it.next)

\* v[k] of a Vec indexed from 0: a panic when k is out of range
InRange(v, k) == k \in DOMAIN v

\* sieve::new(max): vec![false; max + 1] with eliminated[0] and eliminated[1]
\* set to true; ok is FALSE when one of the two index expressions panics
sieve_new(max) ==
    LET v == [k \in 0 .. max |-> FALSE] IN
    IF InRange(v, 0) /\ InRange(v, 1)
    THEN [ok |-> TRUE,
          it |-> [max |-> max, next |-> 1,
                  eliminated |-> [v EXCEPT ![0] = TRUE, ![1] = TRUE]]]
    ELSE [ok |-> FALSE, it |-> [max |-> max, next |-> 1, eliminated |-> v]]

\* while current <= self.max { eliminated[current] = true; current += n }
RECURSIVE Eliminate(_, _, _, _)
Eliminate(e, current, n, max) ==
    IF current <= max
    THEN Eliminate([e EXCEPT ![current] = TRUE], current + n, n, max)
    ELSE e

\* sieve::Primes::next from candidate n on
RECURSIVE SieveScan(_, _)
SieveScan(it, n) ==
    IF n > it.max THEN [it |-> it, item |-> None]
    ELSE IF ~it.eliminated[n]
         THEN [it |-> [it EXCEPT !.eliminated = Eliminate(@, n + n, n, it.max),
                                 !.next = n + 1],
               item |-> Some(n)]
         ELSE SieveScan(it, n + 1)

sieve_next(it) == SieveScan(it, it.next)

\* nothing but fin and fout changes
PrimesFrame ==
    UNCHANGED << variant, ioVars, dirs, concurrency, faults, mainVars, chan,
                 jobVars, pipeVars, readerVars, sinkVars >>

\* fin: opt.max and the two iterators, each with its position: "none" before
\* it is built, "ready", "ended" once next has returned None, "panicked";
\* fout: the numbers each iterator has yielded
InitPrimes ==
    \E m \in 0 .. MaxPrime :
       /\ Threads("bin", <<>>, 1, 0, "idle")
       /\ faults = 0
       /\ mpc = "primes"
       /\ launched = 0
       /\ cmd_threads = {}
       /\ joining = <<>>
       /\ results = <<>>
       /\ ridx = 0
       /\ mtok = 0
       /\ e_code = 0
       /\ fin = [max |-> m, npc |-> "none", naive |-> naive_primes(m),
                 spc |-> "none", sieve |-> sieve_new(m).it]
       /\ fout = [naive |-> <<>>, sieve |-> <<>>]

\* Algorithm::Naive => naive::primes(opt.max)
NaiveNew ==
    /\ mpc = "primes"
    /\ fin.npc = "none"
    /\ fin' = [fin EXCEPT !.npc = "ready", !.naive = naive_primes(fin.max)]
    /\ UNCHANGED fout
    /\ PrimesFrame

\* for i in primes: one call of next on the naive iterator
NaiveNext ==
    /\ mpc = "primes"
    /\ fin.npc = "ready"
    /\ LET r == naive_next(fin.naive) IN
          /\ fin' = [fin EXCEPT !.naive = r.it,
                                !.npc = IF r.item.some THEN "ready" ELSE "ended"]
          /\ fout' = [fout EXCEPT !.naive = IF r.item.some THEN Append(@, r.item.v) ELSE @]
    /\ PrimesFrame

\* the sieve iterator is built: sieve::new(opt.max)
SieveNew ==
    /\ mpc = "primes"
    /\ fin.spc = "none"
    /\ LET r == sieve_new(fin.max) IN
          fin' = [fin EXCEPT !.spc = IF r.ok THEN "ready" ELSE "panicked",
                             !.sieve = r.it]
    /\ UNCHANGED fout
    /\ PrimesFrame

\* for i in primes: one call of next on the sieve iterator
SieveNext ==
    /\ mpc = "primes"
    /\ fin.spc = "ready"
    /\ LET r == sieve_next(fin.sieve) IN
          /\ fin' = [fin EXCEPT !.sieve = r.it,
                                !.spc = IF r.item.some THEN "ready" ELSE "ended"]
          /\ fout' = [fout EXCEPT !.sieve = IF r.item.some THEN Append(@, r.item.v) ELSE @]
    /\ PrimesFrame

NextPrimes ==
    \/ NaiveNew
    \/ NaiveNext
    \/ SieveNew
    \/ SieveNext

SpecPrimes == InitPrimes /\ [][NextPrimes]_vars

\* the primes below m, in ascending order: p is prime when p > 1 and no d
\* in 2 .. p - 1 divides it
RECURSIVE PrimesBelow(_)
PrimesBelow(m) ==
    IF m <= 0 THEN <<>>
    ELSE LET p == m - 1 IN
         PrimesBelow(p) \o (IF p > 1 /\ \A d \in 2 .. p - 1 : p % d # 0
                            THEN << p >> ELSE <<>>)

\* C23: naive::primes(max) yields the primes less than max and nothing else:
\* what it has yielded is always the beginning of the ascending list of the
\* primes p < max, and the whole list once next has returned None
C23_NaiveYieldsPrimesBelowMax ==
    mpc = "primes" =>
       LET want == PrimesBelow(fin.max) IN
       /\ Len(fout.naive) <= Len(want)
       /\ fout.naive = SubSeq(want, 1, Len(fout.naive))
       /\ fin.npc = "ended" => fout.naive = want

\* C28: for every max from 0 on, both iterators are built without a fault
\* and yield the same numbers in the same order, then None
C28_GeneratorsEquivalent ==
    mpc = "primes" =>
       /\ fin.npc # "panicked" /\ fin.spc # "panicked"
       /\ LET n == IF Len(fout.naive) < Len(fout.sieve) THEN Len(fout.naive)
                   ELSE Len(fout.sieve)
          IN SubSeq(fout.naive, 1, n) = SubSeq(fout.sieve, 1, n)
       /\ (fin.npc = "ended" /\ fin.spc = "ended") => fout.naive = fout.sieve
       /\ fin.npc = "ended" => Len(fout.sieve) <= Len(fout.naive)
       /\ fin.spc = "ended" => Len(fout.naive) <= Len(fout.sieve)

\* C24: whenever main calls recv after a successful join, an Outcome is
\* buffered in the channel (more were sent than received), so recv neither
\* blocks nor fails, whatever the join order and whichever jobs panicked
C24_RecvFindsOutcome ==
    mpc = "recv" => chan # <<>>

\* main is at recv after joining the second job first, and a job has panicked
C24_Witness ==
    /\ mpc = "recv"
    /\ chan # <<>>
    /\ joining # <<>> /\ joining[2] = 2
    /\ results = <<>>
    /\ \E i \in Jobs : jpc[i] = "panicked"

\* C25: result collection never delays a job: while the process runs, a job
\* that has joined its readers can send its Outcome, and a job that has sent
\* it can return and release its permit, whatever main is doing
C25_CollectionNeverDelaysJob ==
    \A i \in Jobs :
       /\ (Alive /\ jpc[i] = "send") => ENABLED SendResult(i)
       /\ (Alive /\ jpc[i] = "ret") => ENABLED Return(i)

\* main is joining the first job, which is still waiting for its child and
\* got its permit from the second job: that one has sent its Outcome and
\* returned
C25_Witness ==
    /\ concurrency = 1
    /\ Len(dirs) = 2
    /\ mpc = "join"
    /\ joining # <<>> /\ joining[2] = 1
    /\ jpc[1] = "wait" /\ guard[1]
    /\ jpc[2] = "done" /\ ~guard[2]
    /\ Len(chan) = 1 /\ chan[1].cwd = dirs[2]
    /\ results = <<>>

\* C26: in the IO-thread crate, when main has dropped its sender no clone of
\* it is left; print_error finds the receiver alive; the messages of a
\* stream are written in the order they were sent (the job's lines in the
\* order the child wrote them, the diagnostic after them); at exit every
\* message sent has been written; and, under fair scheduling, once main has
\* dropped its sender handle_io terminates and main exits
C26_IOThreadDrains ==
    /\ [](variant = "io" =>
            /\ mpc \in { "iojoin", "exited" } => ~Senders
            /\ mpc = "process" => hpc # "done"
            /\ mpc = "exited" => (hpc = "done" /\ iochan = <<>> /\ hmsg = <<>>)
            /\ \A i \in Jobs, s \in Streams :
                  LET queued == SelectSeq(iochan, LAMBDA m : m.target = s)
                      all == Payloads(i, s)
                             \o (IF hmsg # <<>> /\ hmsg.target = s
                                 THEN << hmsg.message >> ELSE <<>>)
                             \o [k \in 1 .. Len(queued) |-> queued[k].message]
                      lines == SplitLines(cout[i][s])
                  IN Len(dirs) = 1 =>
                     \E k \in 0 .. Len(all) :
                        /\ k <= Len(lines)
                        /\ SubSeq(all, 1, k) = SubSeq(lines, 1, k)
                        /\ \/ k = Len(all)
                           \/ /\ k = Len(all) - 1
                              /\ s = "Error"
                              /\ results # <<>>
                              /\ all[Len(all)] = DiagMessage(results[1].exit)
                        /\ mpc = "exited" => Len(all) = Len(Payloads(i, s)))
    /\ (variant = "io" /\ mpc = "iojoin") ~> (hpc = "done" /\ mpc = "exited")

\* the tool has exited after handle_io wrote a line of the child's stderr
\* and then the diagnostic of its outcome
C26_Witness ==
    /\ variant = "io"
    /\ mpc = "exited"
    /\ hpc = "done"
    /\ e_code = 1
    /\ cout[1]["Error"] # <<>>
    /\ Len(Payloads(1, "Error")) = Len(SplitLines(cout[1]["Error"])) + 1

\* C27: permits are conserved: the gate's count plus the number of jobs that
\* hold a permit is the configured capacity in every state, whichever way
\* execute_command is left (the early returns on a setup failure, a panic)
C27_PermitsConserved ==
    sem + Cardinality({ i \in Jobs : guard[i] }) = concurrency

\* every permit is back in the gate after one job returned early with an
\* IOError and another one panicked
C27_Witness ==
    /\ concurrency >= 1
    /\ sem = concurrency
    /\ \E i, j \in Jobs :
          /\ jpc[i] = "panicked"
          /\ jpc[j] = "done"
          /\ \E k \in 1 .. Len(results \o chan) :
                (results \o chan)[k] = ProcessResult(dirs[j], IOError(EMFILE))

====
